---- MODULE Spec2Model ----
(***************************************************************************)
(* Model of the CAQE route handlers (src/src/caqe/views.py): the pre- and  *)
(* post-evaluation workflow controller, the hearing-test state machine,    *)
(* the evaluation submission handler and participant creation.             *)
(*                                                                         *)
(* One action models one request handler, run to its response.  The only   *)
(* handler split in two steps is create_participant, whose query and       *)
(* insert are separate database round trips that other requests can        *)
(* interleave with.                                                        *)
(***************************************************************************)
EXTENDS Integers, Sequences, FiniteSets, TLC

(***************************************************************************)
(* Bounds of the model.                                                    *)
(***************************************************************************)
MaxParticipants == 2        \* rows the participant table may grow to
MaxTrials == 2              \* rows the trial table may grow to, and
                            \* payloads one evaluation POST may carry
MaxTime == 1                \* clock ticks modelled
MaxHearingTestAttempts == 2 \* CONFIGURATION['max_hearing_test_attempts']

\* cap on the hearing_test_attempts counter: one POST past the maximum
MaxAttemptsCount == MaxHearingTestAttempts + 1

(***************************************************************************)
(* Program constants (from settings, read by views.py).                    *)
(***************************************************************************)
MIN_HEARING_TEST_AUDIO_INDEX == 3
MAX_HEARING_TEST_AUDIO_INDEX == 4
HEARING_TEST_AUDIO_FILES_PER_TONES == 2
HEARING_TEST_EXPIRATION_HOURS == 1

Sessions == {"s1", "s2"}          \* browser sessions (cookies)
Browsers == {"s1"}                \* the session followed through the workflow
Visitors == {"w1"}                \* the worker followed through the workflow
Workers == {"w1", "w2"}           \* external worker ids
ConditionIds == {1, 2}            \* ids a row of the Condition table may have
\* participant_type of a create_participant request: the platform the
\* participant enters with; the specifications other than the
\* post-evaluation one follow a crowd-platform participant
ParticipantTypes == {"mturk", "anonymous"}
CrowdTypes == {"mturk"}
Forms == {"meets", "fails"}       \* submitted pre-test survey forms
None == "None"

HearingTestIndices == MIN_HEARING_TEST_AUDIO_INDEX..MAX_HEARING_TEST_AUDIO_INDEX
ToneCounts == {i \div HEARING_TEST_AUDIO_FILES_PER_TONES : i \in HearingTestIndices}

VARIABLES
    config,        \* CONFIGURATION: the toggles the controller consults
    conditions,    \* the Condition table: the ids of its rows (read only)
    now,           \* the wall clock, in units of the expiration window
    participants,  \* the Participant table: a sequence of rows, id = index
    trials,        \* the Trial table: a sequence of rows, id = index
    session,       \* the session mapping of every browser
    inflight,      \* create_participant requests between query and insert
    last           \* the last handler step taken: op, session, response

vars == <<config, conditions, now, participants, trials, session, inflight, last>>

(***************************************************************************)
(* Session values.  condition_ids is a tagged value: the key may be unset, *)
(* hold None, or hold a list of ids.  A token is <<>> when its key is      *)
(* absent.                                                                 *)
(***************************************************************************)
CondUnset == [tag |-> "unset", ids |-> {}]
CondNone == [tag |-> "None", ids |-> {}]
CondList(S) == [tag |-> "list", ids |-> S]
NoToken == <<>>

\* utilities.encrypt_data / utilities.decrypt_data on a stimulus index
encrypt_data(i) == <<i>>
decrypt_data(t) == t[1]

\* No create_participant request of a session is between its two halves
NoRequest ==
    [active |-> FALSE, participant_type |-> None, worker |-> None, found |-> 0,
     assignment |-> None]

EmptySession ==
    [participant_id |-> 0, condition_ids |-> CondUnset,
     hearing_test_audio_index1 |-> NoToken, hearing_test_audio_index2 |-> NoToken,
     crowd_data |-> None, platform |-> None]

\* Participant.__init__
NewParticipant(participant_type, w) ==
    [platform |-> participant_type, crowd_worker_id |-> w, gave_consent |-> FALSE,
     hearing_test_attempts |-> 0, passed_hearing_test |-> None,
     hearing_test_last_attempt |-> -1,
     pre_test_survey |-> None, hearing_response_estimation |-> None,
     post_test_survey |-> None]

ConfigFlags ==
    [obtain_consent : BOOLEAN,
     hearing_screening_test_enabled : BOOLEAN,
     hearing_test_rejection_enabled : BOOLEAN,
     pre_test_survey_enabled : BOOLEAN,
     hearing_response_estimation_enabled : BOOLEAN,
     post_test_survey_enabled : BOOLEAN]

Init ==
    /\ config \in ConfigFlags
    /\ conditions \in SUBSET ConditionIds
    /\ now = 0
    /\ participants = <<>>
    /\ trials = <<>>
    /\ session = [s \in Sessions |-> EmptySession]
    /\ inflight = [s \in Sessions |-> NoRequest]
    /\ last = [op |-> "init", s |-> None, resp |-> None, via |-> None]

(***************************************************************************)
(* Helpers of the handlers.                                                *)
(***************************************************************************)
\* What `last` keeps of a served request: the handler, the session, the
\* response, and the function that built the response (the handler itself
\* or the controller it ended in)
Response(op, s, resp) == [op |-> op, s |-> s, resp |-> resp, via |-> "handler"]
ControllerResponse(op, s, resp, controller) ==
    [op |-> op, s |-> s, resp |-> resp, via |-> controller]

\* Participant.set_passed_hearing_test: record the outcome and its time,
\* count the attempt
set_passed_hearing_test(p, state) ==
    [p EXCEPT !.passed_hearing_test = IF state THEN "True" ELSE "False",
              !.hearing_test_attempts = @ + 1,
              !.hearing_test_last_attempt = now]

\* Participant.has_passed_hearing_test_recently: a pass, not yet expired
has_passed_hearing_test_recently(p) ==
    /\ p.passed_hearing_test = "True"
    /\ p.hearing_test_last_attempt >= 0
    /\ now - p.hearing_test_last_attempt < HEARING_TEST_EXPIRATION_HOURS

\* experiment.is_pre_test_survey_valid against the inclusion criteria
is_pre_test_survey_valid(form) == form = "meets"

\* experiment.assign_conditions: None, no condition, or some conditions
AssignChoices == {CondNone} \cup {CondList(S) : S \in SUBSET conditions}

\* Participant.query.filter_by(crowd_worker_id=w).first(): the id of the
\* first row with that worker id, 0 when there is none
FirstParticipantOf(w) ==
    LET ids == {i \in 1..Len(participants) : participants[i].crowd_worker_id = w}
    IN  IF ids = {} THEN 0 ELSE CHOOSE i \in ids : \A j \in ids : i <= j

(***************************************************************************)
(* Variants of pre_evaluation_tasks with a plausible slip, used to show    *)
(* that the properties below depend on the controller.                     *)
(***************************************************************************)
\* the hearing screening is tested before the consent
PreEvaluationResponseSwapped(p, conds) ==
    IF conds.tag = "None" \/ Cardinality(conds.ids) = 0
    THEN "sorry_no_tasks"
    ELSE IF config.hearing_screening_test_enabled
            /\ ~has_passed_hearing_test_recently(p)
    THEN "redirect_hearing_test"
    ELSE IF config.obtain_consent /\ ~p.gave_consent
    THEN "redirect_consent"
    ELSE IF config.pre_test_survey_enabled /\ p.pre_test_survey = None
    THEN "redirect_pre_test_survey"
    ELSE IF config.pre_test_survey_enabled
            /\ ~is_pre_test_survey_valid(p.pre_test_survey)
    THEN "sorry_inclusion_criteria"
    ELSE "redirect_evaluation"

\* the consent step is taken as done once the controller has sent the
\* participant to it: a stored step instead of the persisted fact
PreEvaluationResponseStoredStep(p, conds) ==
    IF conds.tag = "None" \/ Cardinality(conds.ids) = 0
    THEN "sorry_no_tasks"
    ELSE IF config.obtain_consent /\ ~p.gave_consent
            /\ last.resp # "redirect_consent"
    THEN "redirect_consent"
    ELSE IF config.hearing_screening_test_enabled
            /\ ~has_passed_hearing_test_recently(p)
    THEN "redirect_hearing_test"
    ELSE IF config.pre_test_survey_enabled /\ p.pre_test_survey = None
    THEN "redirect_pre_test_survey"
    ELSE IF config.pre_test_survey_enabled
            /\ ~is_pre_test_survey_valid(p.pre_test_survey)
    THEN "sorry_inclusion_criteria"
    ELSE "redirect_evaluation"

\* only None is taken as "no conditions": the length is not tested
PreEvaluationResponseNoneOnly(p, conds) ==
    IF conds.tag = "None"
    THEN "sorry_no_tasks"
    ELSE IF config.obtain_consent /\ ~p.gave_consent
    THEN "redirect_consent"
    ELSE IF config.hearing_screening_test_enabled
            /\ ~has_passed_hearing_test_recently(p)
    THEN "redirect_hearing_test"
    ELSE IF config.pre_test_survey_enabled /\ p.pre_test_survey = None
    THEN "redirect_pre_test_survey"
    ELSE IF config.pre_test_survey_enabled
            /\ ~is_pre_test_survey_valid(p.pre_test_survey)
    THEN "sorry_inclusion_criteria"
    ELSE "redirect_evaluation"

(***************************************************************************)
(* pre_evaluation_tasks: the response it chooses for participant row p     *)
(* once conds has been stored as the session's condition ids.              *)
(***************************************************************************)
PreEvaluationResponse(p, conds) ==
    IF conds.tag = "None" \/ Cardinality(conds.ids) = 0
    THEN "sorry_no_tasks"
    ELSE IF config.obtain_consent /\ ~p.gave_consent
    THEN "redirect_consent"
    ELSE IF config.hearing_screening_test_enabled
            /\ ~has_passed_hearing_test_recently(p)
    THEN "redirect_hearing_test"
    ELSE IF config.pre_test_survey_enabled /\ p.pre_test_survey = None
    THEN "redirect_pre_test_survey"
    ELSE IF config.pre_test_survey_enabled
            /\ ~is_pre_test_survey_valid(p.pre_test_survey)
    THEN "sorry_inclusion_criteria"
    ELSE "redirect_evaluation"

\* pre_evaluation_tasks as called at the end of handler op: sess is the
\* session as the handler left it, parts the participant table after the
\* handler's commit, conds what assign_conditions returns.
pre_evaluation_tasks(op, s, sess, parts, conds) ==
    /\ session' = [session EXCEPT ![s] = [sess EXCEPT !.condition_ids = conds]]
    /\ last' = ControllerResponse(op, s,
                                  PreEvaluationResponse(parts[sess.participant_id], conds),
                                  "pre_evaluation_tasks")

(***************************************************************************)
(* begin: the page before create_participant.  browser_ok says whether the *)
(* request's browser is among the acceptable ones, preview is the preview  *)
(* argument of the request, button the value of begin_button_enabled,      *)
(* which is not among the toggles kept in config and is drawn with the     *)
(* request.  The handler resolves no participant and writes nothing.       *)
(***************************************************************************)
Begin(s, browser_ok, preview, button) ==
    /\ last' = Response("begin", s,
                        IF ~browser_ok THEN "sorry_browser"
                        ELSE IF Cardinality(conditions) = 0 THEN "sorry_no_tasks_available"
                        ELSE IF preview THEN "preview_page"
                        ELSE IF button THEN "begin_page"
                        ELSE "redirect_create_participant")
    /\ UNCHANGED <<config, conditions, now, participants, trials, session, inflight>>

\* create_participant without session.clear()
CreateParticipantFinishKeepsSession(s, participant_type, w, a, found) ==
    LET parts == IF found = 0
                 THEN Append(participants, NewParticipant(participant_type, w))
                 ELSE participants
        pid == IF found = 0 THEN Len(participants) + 1 ELSE found
        sess == [session[s] EXCEPT !.participant_id = pid, !.crowd_data = a]
    IN  /\ participants' = parts
        /\ \E conds \in AssignChoices :
               pre_evaluation_tasks("create_participant", s, sess, parts, conds)

(***************************************************************************)
(* create_participant after its query returned row id found (0: no row):   *)
(* insert the row when there was none, write the cleared session, and run  *)
(* the controller.                                                         *)
(***************************************************************************)
CreateParticipantFinish(s, participant_type, w, a, found) ==
    LET parts == IF found = 0
                 THEN Append(participants, NewParticipant(participant_type, w))
                 ELSE participants
        pid == IF found = 0 THEN Len(participants) + 1 ELSE found
        sess == [EmptySession EXCEPT !.participant_id = pid, !.crowd_data = a]
    IN  /\ participants' = parts
        /\ \E conds \in AssignChoices :
               pre_evaluation_tasks("create_participant", s, sess, parts, conds)

\* create_participant served without another request in between
CreateParticipant(s, participant_type, w, a) ==
    /\ ~inflight[s].active
    /\ FirstParticipantOf(w) = 0 => Len(participants) < MaxParticipants
    /\ CreateParticipantFinish(s, participant_type, w, a, FirstParticipantOf(w))
    /\ UNCHANGED <<config, conditions, now, trials, inflight>>

(***************************************************************************)
(* create_participant served concurrently with other requests: the query   *)
(* (first half) and the insert and session write (second half) are         *)
(* separate steps, and the request keeps what its query returned.          *)
(***************************************************************************)
PendingInserts == Cardinality({s \in Sessions : inflight[s].active /\ inflight[s].found = 0})

CreateParticipantQuery(s, participant_type, w, a) ==
    /\ ~inflight[s].active
    /\ FirstParticipantOf(w) = 0 => Len(participants) + PendingInserts < MaxParticipants
    /\ inflight' = [inflight EXCEPT ![s] =
                        [active |-> TRUE, participant_type |-> participant_type,
                         worker |-> w, found |-> FirstParticipantOf(w),
                         assignment |-> a]]
    /\ last' = Response("create_participant_query", s, None)
    /\ UNCHANGED <<config, conditions, now, participants, trials, session>>

CreateParticipantCommit(s) ==
    /\ inflight[s].active
    /\ CreateParticipantFinish(s, inflight[s].participant_type, inflight[s].worker,
                               inflight[s].assignment, inflight[s].found)
    /\ inflight' = [inflight EXCEPT ![s] = NoRequest]
    /\ UNCHANGED <<config, conditions, now, trials>>

(***************************************************************************)
(* consent                                                                 *)
(***************************************************************************)
ConsentPost(s, answer) ==
    LET pid == session[s].participant_id IN
    /\ IF answer = "agree"
       THEN IF pid = 0
            THEN /\ last' = Response("consent_POST", s, "error500")
                 /\ UNCHANGED <<participants, session>>
            ELSE LET parts == [participants EXCEPT ![pid].gave_consent = TRUE] IN
                 /\ participants' = parts
                 /\ \E conds \in AssignChoices :
                        pre_evaluation_tasks("consent_POST", s, session[s], parts, conds)
       ELSE /\ last' = Response("consent_POST", s,
                                IF answer = "disagree" THEN "sorry_thank_you"
                                                       ELSE "consent_page")
            /\ UNCHANGED <<participants, session>>
    /\ UNCHANGED <<config, conditions, now, trials, inflight>>

\* A variant of pre_test_survey POST with a slip: a form that fails the
\* inclusion criteria is not stored
PreTestSurveyPostKeepsValid(s, form) ==
    LET pid == session[s].participant_id IN
    /\ IF pid = 0
       THEN /\ last' = Response("pre_test_survey_POST", s, "error500")
            /\ UNCHANGED <<participants, session>>
       ELSE LET parts == IF is_pre_test_survey_valid(form)
                            THEN [participants EXCEPT ![pid].pre_test_survey = form]
                            ELSE participants IN
            /\ participants' = parts
            /\ IF is_pre_test_survey_valid(form)
               THEN \E conds \in AssignChoices :
                        pre_evaluation_tasks("pre_test_survey_POST", s, session[s], parts, conds)
               ELSE /\ last' = Response("pre_test_survey_POST", s, "sorry_inclusion_criteria")
                    /\ UNCHANGED session
    /\ UNCHANGED <<config, conditions, now, trials, inflight>>

(***************************************************************************)
(* pre_test_survey POST                                                    *)
(***************************************************************************)
PreTestSurveyPost(s, form) ==
    LET pid == session[s].participant_id IN
    /\ IF pid = 0
       THEN /\ last' = Response("pre_test_survey_POST", s, "error500")
            /\ UNCHANGED <<participants, session>>
       ELSE LET parts == [participants EXCEPT ![pid].pre_test_survey = form] IN
            /\ participants' = parts
            /\ IF is_pre_test_survey_valid(form)
               THEN \E conds \in AssignChoices :
                        pre_evaluation_tasks("pre_test_survey_POST", s, session[s], parts, conds)
               ELSE /\ last' = Response("pre_test_survey_POST", s, "sorry_inclusion_criteria")
                    /\ UNCHANGED session
    /\ UNCHANGED <<config, conditions, now, trials, inflight>>

(***************************************************************************)
(* The GET halves that only render a form or page.                         *)
(***************************************************************************)
RenderedPages == {"consent", "pre_test_survey", "hearing_response_estimation",
                  "post_test_survey"}

RenderGet(s, page) ==
    /\ last' = Response(page \o "_GET", s, page \o "_page")
    /\ UNCHANGED <<config, conditions, now, participants, trials, session, inflight>>

(***************************************************************************)
(* Variants of hearing_test GET with a plausible slip.                     *)
(***************************************************************************)
\* > for >= in the test of the attempts
HearingTestGetOffByOne(s) ==
    LET pid == session[s].participant_id IN
    /\ IF pid = 0
       THEN /\ last' = Response("hearing_test_GET", s, "error500")
            /\ UNCHANGED session
       ELSE IF participants[pid].hearing_test_attempts > MaxHearingTestAttempts
       THEN /\ last' = Response("hearing_test_GET", s, "sorry_max_attempts")
            /\ UNCHANGED session
       ELSE \E i1, i2 \in HearingTestIndices :
                /\ i1 # i2
                /\ session' = [session EXCEPT
                                   ![s].hearing_test_audio_index1 = encrypt_data(i1),
                                   ![s].hearing_test_audio_index2 = encrypt_data(i2)]
                /\ last' = Response("hearing_test_GET", s, "hearing_screening_page")
    /\ UNCHANGED <<config, conditions, now, participants, trials, inflight>>

\* the attempts are not tested
HearingTestGetNoLimit(s) ==
    LET pid == session[s].participant_id IN
    /\ IF pid = 0
       THEN /\ last' = Response("hearing_test_GET", s, "error500")
            /\ UNCHANGED session
       ELSE IF FALSE
       THEN /\ last' = Response("hearing_test_GET", s, "sorry_max_attempts")
            /\ UNCHANGED session
       ELSE \E i1, i2 \in HearingTestIndices :
                /\ i1 # i2
                /\ session' = [session EXCEPT
                                   ![s].hearing_test_audio_index1 = encrypt_data(i1),
                                   ![s].hearing_test_audio_index2 = encrypt_data(i2)]
                /\ last' = Response("hearing_test_GET", s, "hearing_screening_page")
    /\ UNCHANGED <<config, conditions, now, participants, trials, inflight>>

\* the two draws are not compared
HearingTestGetNoRedraw(s) ==
    LET pid == session[s].participant_id IN
    /\ IF pid = 0
       THEN /\ last' = Response("hearing_test_GET", s, "error500")
            /\ UNCHANGED session
       ELSE IF participants[pid].hearing_test_attempts >= MaxHearingTestAttempts
       THEN /\ last' = Response("hearing_test_GET", s, "sorry_max_attempts")
            /\ UNCHANGED session
       ELSE \E i1, i2 \in HearingTestIndices :
                /\ session' = [session EXCEPT
                                   ![s].hearing_test_audio_index1 = encrypt_data(i1),
                                   ![s].hearing_test_audio_index2 = encrypt_data(i2)]
                /\ last' = Response("hearing_test_GET", s, "hearing_screening_page")
    /\ UNCHANGED <<config, conditions, now, participants, trials, inflight>>

\* a session that holds a challenge is given the same challenge again
HearingTestGetRepeats(s) ==
    LET pid == session[s].participant_id IN
    /\ IF pid = 0
       THEN /\ last' = Response("hearing_test_GET", s, "error500")
            /\ UNCHANGED session
       ELSE IF participants[pid].hearing_test_attempts >= MaxHearingTestAttempts
       THEN /\ last' = Response("hearing_test_GET", s, "sorry_max_attempts")
            /\ UNCHANGED session
       ELSE \E i1, i2 \in HearingTestIndices :
                /\ i1 # i2
                /\ session[s].hearing_test_audio_index1 # NoToken =>
                       /\ encrypt_data(i1) = session[s].hearing_test_audio_index1
                       /\ encrypt_data(i2) = session[s].hearing_test_audio_index2
                /\ session' = [session EXCEPT
                                   ![s].hearing_test_audio_index1 = encrypt_data(i1),
                                   ![s].hearing_test_audio_index2 = encrypt_data(i2)]
                /\ last' = Response("hearing_test_GET", s, "hearing_screening_page")
    /\ UNCHANGED <<config, conditions, now, participants, trials, inflight>>

(***************************************************************************)
(* hearing_test GET: refuse when the attempts are used up, else draw two   *)
(* distinct indices and keep their tokens in the session.                  *)
(***************************************************************************)
HearingTestGet(s) ==
    LET pid == session[s].participant_id IN
    /\ IF pid = 0
       THEN /\ last' = Response("hearing_test_GET", s, "error500")
            /\ UNCHANGED session
       ELSE IF participants[pid].hearing_test_attempts >= MaxHearingTestAttempts
       THEN /\ last' = Response("hearing_test_GET", s, "sorry_max_attempts")
            /\ UNCHANGED session
       ELSE \E i1, i2 \in HearingTestIndices :
                /\ i1 # i2
                /\ session' = [session EXCEPT
                                   ![s].hearing_test_audio_index1 = encrypt_data(i1),
                                   ![s].hearing_test_audio_index2 = encrypt_data(i2)]
                /\ last' = Response("hearing_test_GET", s, "hearing_screening_page")
    /\ UNCHANGED <<config, conditions, now, participants, trials, inflight>>

\* A variant of hearing_test POST with a slip: one matching slot is enough
HearingTestPostEitherSlot(s, tones1, tones2) ==
    LET pid == session[s].participant_id
        sess == session[s]
        missing == sess.hearing_test_audio_index1 = NoToken
                   \/ sess.hearing_test_audio_index2 = NoToken
    IN
    /\ IF pid = 0 \/ missing
       THEN \* decrypt_data(None), or an attribute of the apology page: raises
            /\ last' = Response("hearing_test_POST", s, "error500")
            /\ UNCHANGED <<participants, session>>
       ELSE LET expected1 == decrypt_data(sess.hearing_test_audio_index1)
                                 \div HEARING_TEST_AUDIO_FILES_PER_TONES
                expected2 == decrypt_data(sess.hearing_test_audio_index2)
                                 \div HEARING_TEST_AUDIO_FILES_PER_TONES
                passed == tones1 = expected1 \/ tones2 = expected2
                parts == [participants EXCEPT
                              ![pid] = set_passed_hearing_test(@, passed)]
            IN  /\ participants[pid].hearing_test_attempts < MaxAttemptsCount
                /\ participants' = parts
                /\ IF passed
                   THEN \E conds \in AssignChoices :
                            pre_evaluation_tasks("hearing_test_POST", s, sess, parts, conds)
                   ELSE IF parts[pid].hearing_test_attempts < MaxHearingTestAttempts
                   THEN /\ last' = Response("hearing_test_POST", s, "flash_redirect_hearing_test")
                        /\ UNCHANGED session
                   ELSE IF ~config.hearing_test_rejection_enabled
                   THEN \E conds \in AssignChoices :
                            pre_evaluation_tasks("hearing_test_POST", s, sess, parts, conds)
                   ELSE /\ last' = Response("hearing_test_POST", s, "redirect_hearing_test")
                        /\ UNCHANGED session
    /\ UNCHANGED <<config, conditions, now, trials, inflight>>

\* a pass is answered with the evaluation without re-entering the controller
HearingTestPostPassToEvaluation(s, tones1, tones2) ==
    LET pid == session[s].participant_id
        sess == session[s]
        missing == sess.hearing_test_audio_index1 = NoToken
                   \/ sess.hearing_test_audio_index2 = NoToken
    IN
    /\ IF pid = 0 \/ missing
       THEN \* decrypt_data(None), or an attribute of the apology page: raises
            /\ last' = Response("hearing_test_POST", s, "error500")
            /\ UNCHANGED <<participants, session>>
       ELSE LET expected1 == decrypt_data(sess.hearing_test_audio_index1)
                                 \div HEARING_TEST_AUDIO_FILES_PER_TONES
                expected2 == decrypt_data(sess.hearing_test_audio_index2)
                                 \div HEARING_TEST_AUDIO_FILES_PER_TONES
                passed == tones1 = expected1 /\ tones2 = expected2
                parts == [participants EXCEPT
                              ![pid] = set_passed_hearing_test(@, passed)]
            IN  /\ participants[pid].hearing_test_attempts < MaxAttemptsCount
                /\ participants' = parts
                /\ IF passed
                   THEN /\ last' = Response("hearing_test_POST", s, "redirect_evaluation")
                        /\ UNCHANGED session
                   ELSE IF parts[pid].hearing_test_attempts < MaxHearingTestAttempts
                   THEN /\ last' = Response("hearing_test_POST", s, "flash_redirect_hearing_test")
                        /\ UNCHANGED session
                   ELSE IF ~config.hearing_test_rejection_enabled
                   THEN \E conds \in AssignChoices :
                            pre_evaluation_tasks("hearing_test_POST", s, sess, parts, conds)
                   ELSE /\ last' = Response("hearing_test_POST", s, "redirect_hearing_test")
                        /\ UNCHANGED session
    /\ UNCHANGED <<config, conditions, now, trials, inflight>>

(***************************************************************************)
(* hearing_test POST with the two reported tone counts.                    *)
(***************************************************************************)
HearingTestPost(s, tones1, tones2) ==
    LET pid == session[s].participant_id
        sess == session[s]
        missing == sess.hearing_test_audio_index1 = NoToken
                   \/ sess.hearing_test_audio_index2 = NoToken
    IN
    /\ IF pid = 0 \/ missing
       THEN \* decrypt_data(None), or an attribute of the apology page: raises
            /\ last' = Response("hearing_test_POST", s, "error500")
            /\ UNCHANGED <<participants, session>>
       ELSE LET expected1 == decrypt_data(sess.hearing_test_audio_index1)
                                 \div HEARING_TEST_AUDIO_FILES_PER_TONES
                expected2 == decrypt_data(sess.hearing_test_audio_index2)
                                 \div HEARING_TEST_AUDIO_FILES_PER_TONES
                passed == tones1 = expected1 /\ tones2 = expected2
                parts == [participants EXCEPT
                              ![pid] = set_passed_hearing_test(@, passed)]
            IN  /\ participants[pid].hearing_test_attempts < MaxAttemptsCount
                /\ participants' = parts
                /\ IF passed
                   THEN \E conds \in AssignChoices :
                            pre_evaluation_tasks("hearing_test_POST", s, sess, parts, conds)
                   ELSE IF parts[pid].hearing_test_attempts < MaxHearingTestAttempts
                   THEN /\ last' = Response("hearing_test_POST", s, "flash_redirect_hearing_test")
                        /\ UNCHANGED session
                   ELSE IF ~config.hearing_test_rejection_enabled
                   THEN \E conds \in AssignChoices :
                            pre_evaluation_tasks("hearing_test_POST", s, sess, parts, conds)
                   ELSE /\ last' = Response("hearing_test_POST", s, "redirect_hearing_test")
                        /\ UNCHANGED session
    /\ UNCHANGED <<config, conditions, now, trials, inflight>>

(***************************************************************************)
(* evaluation GET                                                          *)
(***************************************************************************)
EvaluationGet(s) ==
    LET sess == session[s] IN
    /\ last' = Response("evaluation_GET", s,
                        IF sess.participant_id # 0 /\ sess.condition_ids.tag = "list"
                           /\ sess.condition_ids.ids # {}
                        THEN "evaluation_page" ELSE "error500")
    /\ UNCHANGED <<config, conditions, now, participants, trials, session, inflight>>

(***************************************************************************)
(* evaluation POST: submitted is the participant_id of the request,        *)
(* payload the conditionID of each completed condition, in order (0: a     *)
(* payload that cannot be read, so that handling it raises).               *)
(***************************************************************************)
PayloadIds == {0} \cup ConditionIds
Payloads == UNION {[1..n -> PayloadIds] : n \in 0..MaxTrials}
SubmittedIds == {1, 2}

Trial(participant_id, condition_id, crowd_data, passed) ==
    [participant_id |-> participant_id, condition_id |-> condition_id,
     crowd_data |-> crowd_data, participant_passed_hearing_test |-> passed]

\* Variants of evaluation POST with a plausible slip: the participant id
\* of the request is not compared with the session's
EvaluationPostNoIdCheck(s, submitted, payload) ==
    LET pid == session[s].participant_id
        raises == \E k \in 1..Len(payload) : payload[k] = 0
        added == [k \in 1..Len(payload) |->
                      Trial(submitted, payload[k], session[s].crowd_data,
                            participants[pid].passed_hearing_test)]
    IN
    /\ IF pid = 0
       THEN \* participant.id of the apology page
            /\ last' = Response("evaluation_POST", s, "json_error_AttributeError")
            /\ UNCHANGED trials
       ELSE IF FALSE
       THEN /\ last' = Response("evaluation_POST", s, "json_error_AssertionError")
            /\ UNCHANGED trials
       ELSE IF raises
       THEN \* the trials added so far are dropped with the request's
            \* database session: commit() was not reached
            /\ last' = Response("evaluation_POST", s, "json_error_payload")
            /\ UNCHANGED trials
       ELSE /\ Len(trials) + Len(payload) <= MaxTrials
            /\ trials' = trials \o added
            \* with no payload, trial is unbound when the receipt is signed
            /\ last' = Response("evaluation_POST", s,
                                IF Len(payload) = 0 THEN "json_error_UnboundLocalError"
                                                    ELSE "json_ok")
    /\ UNCHANGED <<config, conditions, now, participants, session, inflight>>

\* each trial is committed as it is added
EvaluationPostCommitEach(s, submitted, payload) ==
    LET pid == session[s].participant_id
        raises == \E k \in 1..Len(payload) : payload[k] = 0
        added == [k \in 1..Len(payload) |->
                      Trial(submitted, payload[k], session[s].crowd_data,
                            participants[pid].passed_hearing_test)]
    IN
    /\ IF pid = 0
       THEN \* participant.id of the apology page
            /\ last' = Response("evaluation_POST", s, "json_error_AttributeError")
            /\ UNCHANGED trials
       ELSE IF submitted # pid
       THEN /\ last' = Response("evaluation_POST", s, "json_error_AssertionError")
            /\ UNCHANGED trials
       ELSE IF raises
       THEN \* the trials added so far are dropped with the request's
            \* database session: commit() was not reached
            /\ last' = Response("evaluation_POST", s, "json_error_payload")
            /\ LET first == CHOOSE k \in 1..Len(payload) :
                                 payload[k] = 0 /\ \A j \in 1..(k - 1) : payload[j] # 0
               IN  /\ Len(trials) + first - 1 <= MaxTrials
                   /\ trials' = trials \o SubSeq(added, 1, first - 1)
       ELSE /\ Len(trials) + Len(payload) <= MaxTrials
            /\ trials' = trials \o added
            \* with no payload, trial is unbound when the receipt is signed
            /\ last' = Response("evaluation_POST", s,
                                IF Len(payload) = 0 THEN "json_error_UnboundLocalError"
                                                    ELSE "json_ok")
    /\ UNCHANGED <<config, conditions, now, participants, session, inflight>>

\* every trial is flagged as submitted by a participant who passed
EvaluationPostPassedNow(s, submitted, payload) ==
    LET pid == session[s].participant_id
        raises == \E k \in 1..Len(payload) : payload[k] = 0
        added == [k \in 1..Len(payload) |->
                      Trial(submitted, payload[k], session[s].crowd_data,
                            "True")]
    IN
    /\ IF pid = 0
       THEN \* participant.id of the apology page
            /\ last' = Response("evaluation_POST", s, "json_error_AttributeError")
            /\ UNCHANGED trials
       ELSE IF submitted # pid
       THEN /\ last' = Response("evaluation_POST", s, "json_error_AssertionError")
            /\ UNCHANGED trials
       ELSE IF raises
       THEN \* the trials added so far are dropped with the request's
            \* database session: commit() was not reached
            /\ last' = Response("evaluation_POST", s, "json_error_payload")
            /\ UNCHANGED trials
       ELSE /\ Len(trials) + Len(payload) <= MaxTrials
            /\ trials' = trials \o added
            \* with no payload, trial is unbound when the receipt is signed
            /\ last' = Response("evaluation_POST", s,
                                IF Len(payload) = 0 THEN "json_error_UnboundLocalError"
                                                    ELSE "json_ok")
    /\ UNCHANGED <<config, conditions, now, participants, session, inflight>>

EvaluationPost(s, submitted, payload) ==
    LET pid == session[s].participant_id
        raises == \E k \in 1..Len(payload) : payload[k] = 0
        added == [k \in 1..Len(payload) |->
                      Trial(submitted, payload[k], session[s].crowd_data,
                            participants[pid].passed_hearing_test)]
    IN
    /\ IF pid = 0
       THEN \* participant.id of the apology page
            /\ last' = Response("evaluation_POST", s, "json_error_AttributeError")
            /\ UNCHANGED trials
       ELSE IF submitted # pid
       THEN /\ last' = Response("evaluation_POST", s, "json_error_AssertionError")
            /\ UNCHANGED trials
       ELSE IF raises
       THEN \* the trials added so far are dropped with the request's
            \* database session: commit() was not reached
            /\ last' = Response("evaluation_POST", s, "json_error_payload")
            /\ UNCHANGED trials
       ELSE /\ Len(trials) + Len(payload) <= MaxTrials
            /\ trials' = trials \o added
            \* with no payload, trial is unbound when the receipt is signed
            /\ last' = Response("evaluation_POST", s,
                                IF Len(payload) = 0 THEN "json_error_UnboundLocalError"
                                                    ELSE "json_ok")
    /\ UNCHANGED <<config, conditions, now, participants, session, inflight>>

\* The responses of evaluation POST whose error field is true
JsonErrors == {"json_error_AttributeError", "json_error_AssertionError",
               "json_error_payload", "json_error_UnboundLocalError"}

\* A variant of post_evaluation_tasks with a slip: the post-test survey is
\* tested before the hearing-response estimation
PostEvaluationResponseSwapped(s, parts) ==
    LET pid == session[s].participant_id IN
    IF config.post_test_survey_enabled
       /\ (pid = 0 \/ parts[pid].post_test_survey = None)
    THEN IF pid = 0 THEN "error500" ELSE "redirect_post_test_survey"
    ELSE IF config.hearing_response_estimation_enabled
            /\ (pid = 0 \/ parts[pid].hearing_response_estimation = None)
    THEN IF pid = 0 THEN "error500" ELSE "redirect_hearing_response_estimation"
    ELSE "redirect_end"

(***************************************************************************)
(* post_evaluation_tasks: the response it chooses.  Without a participant  *)
(* id the first field read of the apology page raises.                     *)
(***************************************************************************)
PostEvaluationResponse(s, parts) ==
    LET pid == session[s].participant_id IN
    IF config.hearing_response_estimation_enabled
       /\ (pid = 0 \/ parts[pid].hearing_response_estimation = None)
    THEN IF pid = 0 THEN "error500" ELSE "redirect_hearing_response_estimation"
    ELSE IF config.post_test_survey_enabled
            /\ (pid = 0 \/ parts[pid].post_test_survey = None)
    THEN IF pid = 0 THEN "error500" ELSE "redirect_post_test_survey"
    ELSE "redirect_end"

\* a variant with a slip: the controller marks the step it sends the
\* participant to as done
PostEvaluationTasksMarksStep(s) ==
    LET pid == session[s].participant_id
        resp == PostEvaluationResponse(s, participants)
    IN
    /\ last' = ControllerResponse("post_evaluation_tasks", s, resp,
                                  "post_evaluation_tasks")
    /\ participants' =
           IF resp = "redirect_hearing_response_estimation"
           THEN [participants EXCEPT ![pid].hearing_response_estimation = "form"]
           ELSE IF resp = "redirect_post_test_survey"
           THEN [participants EXCEPT ![pid].post_test_survey = "form"]
           ELSE participants
    /\ UNCHANGED <<config, conditions, now, trials, session, inflight>>

PostEvaluationTasks(s) ==
    /\ last' = ControllerResponse("post_evaluation_tasks", s,
                                  PostEvaluationResponse(s, participants),
                                  "post_evaluation_tasks")
    /\ UNCHANGED <<config, conditions, now, participants, trials, session, inflight>>

\* a variant of hearing_response_estimation POST with a slip: the form is
\* not stored before the controller is asked for the next step
HearingResponseEstimationPostForgets(s) ==
    LET pid == session[s].participant_id IN
    /\ IF pid = 0
       THEN /\ last' = Response("hearing_response_estimation_POST", s, "error500")
            /\ UNCHANGED participants
       ELSE /\ participants' = participants
            /\ last' = ControllerResponse("hearing_response_estimation_POST", s,
                                          PostEvaluationResponse(s, participants),
                                          "post_evaluation_tasks")
    /\ UNCHANGED <<config, conditions, now, trials, session, inflight>>

HearingResponseEstimationPost(s) ==
    LET pid == session[s].participant_id IN
    /\ IF pid = 0
       THEN /\ last' = Response("hearing_response_estimation_POST", s, "error500")
            /\ UNCHANGED participants
       ELSE LET parts == [participants EXCEPT ![pid].hearing_response_estimation = "form"] IN
            /\ participants' = parts
            /\ last' = ControllerResponse("hearing_response_estimation_POST", s,
                                          PostEvaluationResponse(s, parts),
                                          "post_evaluation_tasks")
    /\ UNCHANGED <<config, conditions, now, trials, session, inflight>>

PostTestSurveyPost(s) ==
    LET pid == session[s].participant_id IN
    /\ IF pid = 0
       THEN /\ last' = Response("post_test_survey_POST", s, "error500")
            /\ UNCHANGED participants
       ELSE LET parts == [participants EXCEPT ![pid].post_test_survey = "form"] IN
            /\ participants' = parts
            /\ last' = ControllerResponse("post_test_survey_POST", s,
                                          PostEvaluationResponse(s, parts),
                                          "post_evaluation_tasks")
    /\ UNCHANGED <<config, conditions, now, trials, session, inflight>>

\* The clock advances; no request is served
\* end: the thank-you page of the platform named in the URL
End(s, platform) ==
    /\ last' = Response("end_GET", s,
                        IF platform = "mturk" THEN "mturk_end_page" ELSE "end_page")
    /\ UNCHANGED <<config, conditions, now, participants, trials, session, inflight>>

Tick ==
    /\ now < MaxTime
    /\ now' = now + 1
    /\ UNCHANGED <<config, conditions, participants, trials, session, inflight, last>>

Assignments == {"a1"}             \* crowd assignment ids of a request

(***************************************************************************)
(* The pre-evaluation workflow of one browser: every configuration of the  *)
(* pre-evaluation toggles, the clock, and the handlers up to the           *)
(* evaluation page.                                                        *)
(***************************************************************************)
InitPre ==
    /\ Init
    /\ conditions = {1}
    /\ config.hearing_response_estimation_enabled = FALSE
    /\ config.post_test_survey_enabled = FALSE

Next ==
    \/ Tick
    \/ \E s \in Browsers, participant_type \in CrowdTypes, w \in Visitors, a \in Assignments :
           CreateParticipant(s, participant_type, w, a)
    \/ \E s \in Browsers, answer \in {"agree", "disagree", "other"} : ConsentPost(s, answer)
    \/ \E s \in Browsers, form \in Forms : PreTestSurveyPost(s, form)
    \/ \E s \in Browsers : HearingTestGet(s)
    \/ \E s \in Browsers, tones1, tones2 \in ToneCounts : HearingTestPost(s, tones1, tones2)

Spec == InitPre /\ [][Next]_vars

(***************************************************************************)
(* Evaluation submissions of one browser.  The evaluation handler reads no *)
(* toggle; the hearing test is kept so that the participant's pass state   *)
(* varies.                                                                 *)
(***************************************************************************)
InitEvaluation ==
    /\ Init
    /\ conditions = ConditionIds
    /\ config.obtain_consent = FALSE
    /\ config.hearing_screening_test_enabled = TRUE
    /\ config.hearing_test_rejection_enabled = TRUE
    /\ config.pre_test_survey_enabled = FALSE
    /\ config.hearing_response_estimation_enabled = FALSE
    /\ config.post_test_survey_enabled = FALSE

NextEvaluation ==
    \/ \E s \in Browsers, participant_type \in CrowdTypes, w \in Visitors, a \in Assignments :
           CreateParticipant(s, participant_type, w, a)
    \/ \E s \in Browsers : HearingTestGet(s)
    \/ \E s \in Browsers, tones1, tones2 \in ToneCounts : HearingTestPost(s, tones1, tones2)
    \/ \E s \in Browsers : EvaluationGet(s)
    \/ \E s \in Browsers, submitted \in SubmittedIds, payload \in Payloads :
           EvaluationPost(s, submitted, payload)

SpecEvaluation == InitEvaluation /\ [][NextEvaluation]_vars

(***************************************************************************)
(* Evaluation submissions against a store that holds condition 1 only, so  *)
(* that a payload can name a condition that does not exist.                *)
(***************************************************************************)
InitTrialStore ==
    /\ Init
    /\ conditions = {1}
    /\ config.obtain_consent = FALSE
    /\ config.hearing_screening_test_enabled = TRUE
    /\ config.hearing_test_rejection_enabled = TRUE
    /\ config.pre_test_survey_enabled = FALSE
    /\ config.hearing_response_estimation_enabled = FALSE
    /\ config.post_test_survey_enabled = FALSE

SpecTrialStore == InitTrialStore /\ [][NextEvaluation]_vars

(***************************************************************************)
(* Concurrent create_participant requests of several browsers.             *)
(***************************************************************************)
NextCreate ==
    \/ \E s \in Sessions, participant_type \in CrowdTypes, w \in Workers, a \in Assignments :
           CreateParticipantQuery(s, participant_type, w, a)
    \/ \E s \in Sessions : CreateParticipantCommit(s)

InitCreate ==
    /\ InitPre
    /\ config.hearing_screening_test_enabled = FALSE
    /\ config.hearing_test_rejection_enabled = FALSE
    /\ config.pre_test_survey_enabled = FALSE

SpecCreate == InitCreate /\ [][NextCreate]_vars

(***************************************************************************)
(* The post-evaluation workflow of one browser.                            *)
(***************************************************************************)
InitPost ==
    /\ Init
    /\ conditions = {1}
    /\ config.obtain_consent = FALSE
    /\ config.hearing_screening_test_enabled = FALSE
    /\ config.hearing_test_rejection_enabled = FALSE
    /\ config.pre_test_survey_enabled = FALSE

NextPost ==
    \/ \E s \in Browsers, participant_type \in ParticipantTypes, w \in Visitors, a \in Assignments :
           CreateParticipant(s, participant_type, w, a)
    \/ \E s \in Browsers : PostEvaluationTasks(s)
    \/ \E s \in Browsers : HearingResponseEstimationPost(s)
    \/ \E s \in Browsers : PostTestSurveyPost(s)
    \/ \E s \in Browsers, page \in RenderedPages : RenderGet(s, page)

SpecPost == InitPost /\ [][NextPost]_vars

(***************************************************************************)
(* Both workflow controllers of one browser, with the hearing screening    *)
(* and both post-evaluation steps switched on, so that each controller has *)
(* every one of its outcomes; consent and pre-test survey are free.        *)
(***************************************************************************)
InitControllers ==
    /\ Init
    /\ conditions = {1}
    /\ config.hearing_screening_test_enabled = TRUE
    /\ config.hearing_test_rejection_enabled = TRUE
    /\ config.hearing_response_estimation_enabled = TRUE
    /\ config.post_test_survey_enabled = TRUE

NextControllers ==
    \/ Next
    \/ \E s \in Browsers : PostEvaluationTasks(s)
    \/ \E s \in Browsers : HearingResponseEstimationPost(s)
    \/ \E s \in Browsers : PostTestSurveyPost(s)

SpecControllers == InitControllers /\ [][NextControllers]_vars

(***************************************************************************)
(* The way into the workflow of one browser, with and without conditions   *)
(* in the store: begin, create_participant and the handlers that call the  *)
(* pre-evaluation controller.  The clock stands still.                     *)
(***************************************************************************)
InitAssignment ==
    /\ Init
    /\ conditions \in {{}, {1}}
    /\ config.hearing_test_rejection_enabled = FALSE
    /\ config.hearing_response_estimation_enabled = FALSE
    /\ config.post_test_survey_enabled = FALSE

NextAssignment ==
    \/ \E s \in Browsers, browser_ok, preview, button \in BOOLEAN :
           Begin(s, browser_ok, preview, button)
    \/ \E s \in Browsers, participant_type \in CrowdTypes, w \in Visitors, a \in Assignments :
           CreateParticipant(s, participant_type, w, a)
    \/ \E s \in Browsers, answer \in {"agree", "disagree", "other"} : ConsentPost(s, answer)
    \/ \E s \in Browsers, form \in Forms : PreTestSurveyPost(s, form)
    \/ \E s \in Browsers : HearingTestGet(s)
    \/ \E s \in Browsers, tones1, tones2 \in ToneCounts : HearingTestPost(s, tones1, tones2)

SpecAssignment == InitAssignment /\ [][NextAssignment]_vars
(***************************************************************************)
(* The session of one browser across several entries: create_participant   *)
(* for either worker with either assignment id, and the hearing test,      *)
(* which leaves its tokens in the session.  The clock stands still.        *)
(***************************************************************************)
AssignmentIds == {"a1", "a2"}

InitSession ==
    /\ Init
    /\ conditions = {1}
    /\ config.obtain_consent = FALSE
    /\ config.hearing_screening_test_enabled = TRUE
    /\ config.pre_test_survey_enabled = FALSE
    /\ config.hearing_response_estimation_enabled = FALSE
    /\ config.post_test_survey_enabled = FALSE

NextSession ==
    \/ \E s \in Browsers, participant_type \in CrowdTypes, w \in Workers, a \in AssignmentIds :
           CreateParticipant(s, participant_type, w, a)
    \/ \E s \in Browsers : HearingTestGet(s)
    \/ \E s \in Browsers, tones1, tones2 \in ToneCounts : HearingTestPost(s, tones1, tones2)

SpecSession == InitSession /\ [][NextSession]_vars

(***************************************************************************)
(* One cooperative participant in one browser.  The participant enters     *)
(* once and then does what the last response asks for: follows a redirect, *)
(* agrees to the consent form, reports the tone counts of the challenge,   *)
(* submits a survey that meets the inclusion criteria, submits the         *)
(* evaluation of an assigned condition, opens post_evaluation_tasks when   *)
(* the evaluation page says the test is complete, and submits each form.   *)
(* The clock may advance between any two requests.                         *)
(***************************************************************************)
CoopEnter(s) ==
    /\ last.op = "init"
    /\ \E participant_type \in CrowdTypes, w \in Visitors, a \in Assignments :
           CreateParticipant(s, participant_type, w, a)

\* GET of the form a redirect names
CoopOpenForm(s) ==
    \E page \in RenderedPages :
        /\ last.resp = "redirect_" \o page
        /\ RenderGet(s, page)

CoopConsent(s) ==
    /\ last.resp = "consent_page"
    /\ ConsentPost(s, "agree")

CoopHearingTestGet(s) ==
    /\ last.resp = "redirect_hearing_test"
    /\ HearingTestGet(s)

\* the tone counts of the two audio files of the challenge
CoopHearingTestPost(s) ==
    /\ last.resp = "hearing_screening_page"
    /\ \E tones1, tones2 \in ToneCounts :
           /\ tones1 = decrypt_data(session[s].hearing_test_audio_index1)
                           \div HEARING_TEST_AUDIO_FILES_PER_TONES
           /\ tones2 = decrypt_data(session[s].hearing_test_audio_index2)
                           \div HEARING_TEST_AUDIO_FILES_PER_TONES
           /\ HearingTestPost(s, tones1, tones2)

CoopPreTestSurvey(s) ==
    /\ last.resp = "pre_test_survey_page"
    /\ PreTestSurveyPost(s, "meets")

CoopEvaluationGet(s) ==
    /\ last.resp = "redirect_evaluation"
    /\ EvaluationGet(s)

\* one completed trial of an assigned condition, under the page's participant id
CoopEvaluationPost(s) ==
    /\ last.resp = "evaluation_page"
    /\ \E c \in session[s].condition_ids.ids :
           EvaluationPost(s, session[s].participant_id, <<c>>)

\* test_complete_redirect_url of the evaluation page
CoopPostEvaluationTasks(s) ==
    /\ last.resp = "json_ok"
    /\ PostEvaluationTasks(s)

CoopHearingResponseEstimation(s) ==
    /\ last.resp = "hearing_response_estimation_page"
    /\ HearingResponseEstimationPost(s)

CoopPostTestSurvey(s) ==
    /\ last.resp = "post_test_survey_page"
    /\ PostTestSurveyPost(s)

\* the redirect to end carries the platform read from the session
CoopEnd(s) ==
    /\ last.resp = "redirect_end"
    /\ End(s, session[s].platform)

InitCooperative ==
    /\ Init
    /\ conditions = {1}

ParticipantStep ==
    \E s \in Browsers :
        \/ CoopEnter(s)
        \/ CoopOpenForm(s)
        \/ CoopConsent(s)
        \/ CoopHearingTestGet(s)
        \/ CoopHearingTestPost(s)
        \/ CoopPreTestSurvey(s)
        \/ CoopEvaluationGet(s)
        \/ CoopEvaluationPost(s)
        \/ CoopPostEvaluationTasks(s)
        \/ CoopHearingResponseEstimation(s)
        \/ CoopPostTestSurvey(s)
        \/ CoopEnd(s)

NextCooperative ==
    \/ Tick
    \/ ParticipantStep

\* the participant does not stop before the workflow does: a request that
\* the last response asks for is eventually sent
SpecCooperative ==
    InitCooperative /\ [][NextCooperative]_vars /\ WF_vars(ParticipantStep)

(***************************************************************************)
(*                              PROPERTIES                                 *)
(*                                                                         *)
(* A step in which the clock does not tick serves a request, and last'     *)
(* describes that request.  The properties of a handler's response are     *)
(* stated over such steps.                                                 *)
(***************************************************************************)
IsPass(p) == p.passed_hearing_test = "True"

\* The pass of row p is within the expiration window at time t
RecentPassAt(p, t) ==
    /\ IsPass(p)
    /\ p.hearing_test_last_attempt >= 0
    /\ t - p.hearing_test_last_attempt < HEARING_TEST_EXPIRATION_HOURS

NonEmpty(conds) == conds.tag = "list" /\ conds.ids # {}

\* C1: pre_evaluation_tasks sends the participant to the evaluation only if
\* the assigned conditions are non-empty, consent is given or not required,
\* the hearing screening is disabled or passed recently, and the pre-test
\* survey is disabled or recorded and valid; the gates are tested in that
\* order and the first unmet one decides the response.
C1_GatesInOrder ==
    [][\A s \in Sessions :
          (now' = now /\ last'.s = s /\ last'.via = "pre_evaluation_tasks") =>
              LET p == participants'[session'[s].participant_id]
                  assigned == NonEmpty(session'[s].condition_ids)
                  consented == ~config.obtain_consent \/ p.gave_consent
                  screened == ~config.hearing_screening_test_enabled
                              \/ RecentPassAt(p, now')
                  recorded == ~config.pre_test_survey_enabled
                              \/ p.pre_test_survey # None
                  valid == ~config.pre_test_survey_enabled
                           \/ p.pre_test_survey = "meets"
                  resp == last'.resp
              IN  /\ resp = "redirect_evaluation" =>
                         assigned /\ consented /\ screened /\ recorded /\ valid
                  /\ ~assigned => resp = "sorry_no_tasks"
                  /\ assigned /\ ~consented => resp = "redirect_consent"
                  /\ assigned /\ consented /\ ~screened => resp = "redirect_hearing_test"
                  /\ assigned /\ consented /\ screened /\ ~recorded =>
                         resp = "redirect_pre_test_survey"
                  /\ assigned /\ consented /\ screened /\ recorded /\ ~valid =>
                         resp = "sorry_inclusion_criteria"
      ]_vars

\* The controller sent a participant to the evaluation with every gate enabled
C1_Witness ==
    /\ last.via = "pre_evaluation_tasks"
    /\ last.resp = "redirect_evaluation"
    /\ config.obtain_consent
    /\ config.hearing_screening_test_enabled
    /\ config.pre_test_survey_enabled

\* Two successive runs of the same workflow controller for the same session,
\* with the participant table and the assigned conditions as the first run
\* left them (the configuration never changes)
SameStateRerun(s) ==
    /\ now' = now
    /\ last.via \in {"pre_evaluation_tasks", "post_evaluation_tasks"}
    /\ last.s = s
    /\ last'.via = last.via /\ last'.s = s
    /\ participants' = participants
    /\ session'[s].participant_id = session[s].participant_id
    /\ session'[s].condition_ids = session[s].condition_ids

\* C2 as stated: re-invoking the controller with identical persisted
\* participant state, configuration and condition assignment yields the
\* same next step.
C2_SameStateSameStep ==
    [][\A s \in Sessions : SameStateRerun(s) => last'.resp = last.resp]_vars

\* C2 as amended: ... yields the same next step, provided a recorded
\* hearing-test pass has not expired between the two runs.
C2_SameStateSameStepUnexpired ==
    [][\A s \in Sessions :
          LET pid == session'[s].participant_id
              p == participants'[pid]
          IN  (/\ SameStateRerun(s)
               /\ pid # 0 => (IsPass(p) => RecentPassAt(p, now'))) =>
                  last'.resp = last.resp
      ]_vars

\* create_participant re-ran the controller for a participant who had
\* passed the hearing test before
C2_Witness ==
    /\ last.op = "create_participant"
    /\ last.via = "pre_evaluation_tasks"
    /\ IsPass(participants[session[last.s].participant_id])
    /\ RecentPassAt(participants[session[last.s].participant_id], now)

\* C3: with the attempts at the maximum and rejection enabled, hearing_test
\* GET returns the terminal page and leaves the session's challenge tokens
\* as they were.
C3_NoChallengeWhenExhausted ==
    [][\A s \in Sessions :
          LET pid == session[s].participant_id IN
          (/\ now' = now /\ last'.op = "hearing_test_GET" /\ last'.s = s
           /\ pid # 0
           /\ participants[pid].hearing_test_attempts >= MaxHearingTestAttempts
           /\ config.hearing_test_rejection_enabled) =>
              /\ last'.resp = "sorry_max_attempts"
              /\ session'[s].hearing_test_audio_index1 = session[s].hearing_test_audio_index1
              /\ session'[s].hearing_test_audio_index2 = session[s].hearing_test_audio_index2
      ]_vars

\* hearing_test GET refused a participant whose attempts are exactly the
\* maximum, rejection being enabled
C3_Witness ==
    /\ last.op = "hearing_test_GET"
    /\ last.resp = "sorry_max_attempts"
    /\ config.hearing_test_rejection_enabled
    /\ participants[session[last.s].participant_id].hearing_test_attempts
           = MaxHearingTestAttempts

\* C4: with screening enabled and rejection disabled, the failed POST that
\* brings the attempts to the maximum is answered with the step after the
\* hearing screening (the consent being given and conditions assigned).
C4_PassedThroughWhenExhausted ==
    [][\A s \in Sessions :
          LET pid == session[s].participant_id IN
          (/\ now' = now /\ last'.op = "hearing_test_POST" /\ last'.s = s
           /\ pid # 0
           /\ config.hearing_screening_test_enabled
           /\ ~config.hearing_test_rejection_enabled
           /\ participants'[pid].hearing_test_attempts
                  = participants[pid].hearing_test_attempts + 1
           /\ participants'[pid].passed_hearing_test = "False"
           /\ participants'[pid].hearing_test_attempts = MaxHearingTestAttempts
           /\ NonEmpty(session'[s].condition_ids)
           /\ (~config.obtain_consent \/ participants'[pid].gave_consent)) =>
              last'.resp \in {"redirect_pre_test_survey", "redirect_evaluation",
                              "sorry_inclusion_criteria"}
      ]_vars

\* An evaluation POST of session s that answered error = false or changed
\* the trial table.  (In every other evaluation POST the response has
\* error = true and the table is as before, which is all C5 and C7 ask of
\* it, so the requests behind a step are enumerated for these steps only.)
EvaluationPostTookEffect(s) ==
    /\ now' = now /\ last'.op = "evaluation_POST" /\ last'.s = s
    /\ (last'.resp \notin JsonErrors \/ trials' # trials)

\* C5: an evaluation POST whose participant id differs from the session's
\* answers with error = true and stores no trial.
C5_MismatchIsError ==
    [][\A s \in Sessions :
          EvaluationPostTookEffect(s) =>
              \A submitted \in SubmittedIds, payload \in Payloads :
                  EvaluationPost(s, submitted, payload) =>
                      submitted = session[s].participant_id
      ]_vars

\* An evaluation POST of a session with a participant failed the comparison
\* of the ids
C5_Witness ==
    /\ last.op = "evaluation_POST"
    /\ last.resp = "json_error_AssertionError"
    /\ session[last.s].participant_id # 0

\* C6: no trial is stored for a condition id outside the assigned
\* condition ids of the session that submits it (stated for a session that
\* has conditions assigned).
C6_OnlyAssignedConditionsStored ==
    [][\A s \in Sessions :
          (/\ now' = now /\ last'.op = "evaluation_POST" /\ last'.s = s
           /\ NonEmpty(session[s].condition_ids)) =>
              \A k \in (Len(trials) + 1)..Len(trials') :
                  trials'[k].condition_id \in session[s].condition_ids.ids
      ]_vars

\* C7: an evaluation POST answers error = false only when every payload was
\* committed as a trial, in order; a request that raises on a payload
\* commits nothing; what it commits is all of its payloads or none.
C7_AllOrNothing ==
    [][\A s \in Sessions :
          EvaluationPostTookEffect(s) =>
              \A submitted \in SubmittedIds, payload \in Payloads :
                  EvaluationPost(s, submitted, payload) =>
                      /\ last'.resp = "json_ok" \/ last'.resp \in JsonErrors
                      /\ last'.resp = "json_ok" =>
                             /\ Len(trials') = Len(trials) + Len(payload)
                             /\ SubSeq(trials', 1, Len(trials)) = trials
                             /\ \A k \in 1..Len(payload) :
                                    trials'[Len(trials) + k].condition_id = payload[k]
                      /\ (\E k \in 1..Len(payload) : payload[k] = 0) => trials' = trials
                      /\ trials' # trials => Len(trials') = Len(trials) + Len(payload)
      ]_vars

\* A request failed on a payload after an earlier request had stored a trial
C7_Witness ==
    /\ last.op = "evaluation_POST"
    /\ last.resp = "json_error_payload"
    /\ Len(trials) > 0

\* C8: the participant table holds one row per external worker id.
C8_OneRowPerWorker ==
    \A i, j \in 1..Len(participants) :
        participants[i].crowd_worker_id = participants[j].crowd_worker_id => i = j

\* C9: once computed for a visit, the session's condition ids are not
\* changed by a consent, hearing-test or pre-test survey submission.
C9_ConditionIdsFixed ==
    [][\A s \in Sessions :
          (/\ now' = now /\ last'.s = s
           /\ last'.op \in {"consent_POST", "hearing_test_POST", "pre_test_survey_POST"}
           /\ session[s].condition_ids.tag # "unset") =>
              session'[s].condition_ids = session[s].condition_ids
      ]_vars

\* C10: no step decreases a participant's attempt count, and hearing_test
\* GET writes a challenge only when the count is below the maximum.
C10_AttemptsGuardChallenge ==
    [][/\ Len(participants') >= Len(participants)
       /\ \A i \in 1..Len(participants) :
              participants'[i].hearing_test_attempts
                  >= participants[i].hearing_test_attempts
       /\ \A s \in Sessions :
              LET pid == session[s].participant_id
                  issued == \/ last'.resp = "hearing_screening_page"
                            \/ session'[s].hearing_test_audio_index1
                                   # session[s].hearing_test_audio_index1
                            \/ session'[s].hearing_test_audio_index2
                                   # session[s].hearing_test_audio_index2
              IN  (now' = now /\ last'.op = "hearing_test_GET" /\ last'.s = s /\ issued) =>
                      /\ pid # 0
                      /\ participants[pid].hearing_test_attempts < MaxHearingTestAttempts
      ]_vars

\* A challenge was issued to a participant with one attempt left
C10_Witness ==
    /\ last.op = "hearing_test_GET"
    /\ last.resp = "hearing_screening_page"
    /\ session[last.s].hearing_test_audio_index1 # NoToken
    /\ participants[session[last.s].participant_id].hearing_test_attempts
           = MaxHearingTestAttempts - 1

\* C11: a hearing-test challenge stored in a session has two distinct
\* indices, both in the configured range (and a session holds both tokens
\* or none).
C11_ChallengeDistinctInRange ==
    \A s \in Sessions :
        LET t1 == session[s].hearing_test_audio_index1
            t2 == session[s].hearing_test_audio_index2
        IN  \/ t1 = NoToken /\ t2 = NoToken
            \/ /\ t1 # NoToken /\ t2 # NoToken
               /\ decrypt_data(t1) \in MIN_HEARING_TEST_AUDIO_INDEX..MAX_HEARING_TEST_AUDIO_INDEX
               /\ decrypt_data(t2) \in MIN_HEARING_TEST_AUDIO_INDEX..MAX_HEARING_TEST_AUDIO_INDEX
               /\ decrypt_data(t1) # decrypt_data(t2)

\* A second challenge was issued to a session, after a failed attempt
C11_Witness ==
    /\ last.op = "hearing_test_GET"
    /\ last.resp = "hearing_screening_page"
    /\ session[last.s].hearing_test_audio_index1 # NoToken
    /\ participants[session[last.s].participant_id].hearing_test_attempts > 0

\* C12: a hearing_test POST of a session that holds no challenge tokens
\* records a failed attempt (the count grows by one) and is answered on the
\* failure path, not with an internal error.
C12_MissingTokenIsFailedAttempt ==
    [][\A s \in Sessions :
          LET pid == session[s].participant_id IN
          (/\ now' = now /\ last'.op = "hearing_test_POST" /\ last'.s = s
           /\ pid # 0
           /\ \/ session[s].hearing_test_audio_index1 = NoToken
              \/ session[s].hearing_test_audio_index2 = NoToken) =>
              /\ last'.resp # "error500"
              /\ participants'[pid].passed_hearing_test = "False"
              /\ participants'[pid].hearing_test_attempts
                     = participants[pid].hearing_test_attempts + 1
      ]_vars

\* C13: a successful evaluation POST with n payloads appends exactly n
\* trials, the k-th with the k-th payload's condition id, the session
\* participant's id and the participant's pass state of that moment; no
\* step changes or removes a trial stored before.
C13_TrialsAsSubmitted ==
    [][/\ Len(trials') >= Len(trials)
       /\ SubSeq(trials', 1, Len(trials)) = trials
       /\ \A s \in Sessions :
              (EvaluationPostTookEffect(s) /\ last'.resp = "json_ok") =>
                  \A submitted \in SubmittedIds, payload \in Payloads :
                      EvaluationPost(s, submitted, payload) =>
                          LET pid == session[s].participant_id IN
                          /\ Len(payload) >= 1
                          /\ Len(trials') = Len(trials) + Len(payload)
                          /\ \A k \in 1..Len(payload) :
                                 LET trial == trials'[Len(trials) + k] IN
                                 /\ trial.condition_id = payload[k]
                                 /\ trial.participant_id = pid
                                 /\ trial.participant_passed_hearing_test
                                        = participants[pid].passed_hearing_test
      ]_vars

\* A trial stored while the participant had failed the hearing test is
\* still flagged so after the participant has passed
C13_Witness ==
    /\ last.op = "hearing_test_POST"
    /\ \E k \in 1..Len(trials) :
           /\ trials[k].participant_passed_hearing_test = "False"
           /\ participants[trials[k].participant_id].passed_hearing_test = "True"

\* What the handler that served op wrote to the participant table before
\* it called the controller: a new row (create_participant), the consent
\* flag, the survey, or the outcome of a hearing-test attempt.
HandlerWriteOnly(op, pid) ==
    \/ /\ op = "create_participant"
       /\ \/ participants' = participants
          \/ \E participant_type \in ParticipantTypes, w \in Workers :
                 participants' = Append(participants, NewParticipant(participant_type, w))
    \/ /\ op = "consent_POST"
       /\ participants' = [participants EXCEPT ![pid].gave_consent = TRUE]
    \/ /\ op = "pre_test_survey_POST"
       /\ \E form \in Forms :
              participants' = [participants EXCEPT ![pid].pre_test_survey = form]
    \/ /\ op = "hearing_test_POST"
       /\ \E state \in BOOLEAN :
              participants' = [participants EXCEPT
                                   ![pid] = set_passed_hearing_test(@, state)]

\* C14: when the allocator returns None or an empty list, the controller
\* answers with the no-tasks page (no redirect), the trial table is
\* unchanged and the participant table has only what the calling handler
\* wrote before the controller ran; begin, with no condition in the store,
\* answers with a terminal page and writes nothing.
C14_NoConditionsNoTasks ==
    [][\A s \in Sessions :
          /\ (/\ now' = now /\ last'.s = s /\ last'.via = "pre_evaluation_tasks"
              /\ ~NonEmpty(session'[s].condition_ids)) =>
                 /\ last'.resp = "sorry_no_tasks"
                 /\ trials' = trials
                 /\ HandlerWriteOnly(last'.op, session'[s].participant_id)
          /\ (/\ last'.s = s /\ last'.op = "begin" /\ last' # last
              /\ conditions = {}) =>
                 /\ last'.resp \in {"sorry_browser", "sorry_no_tasks_available"}
                 /\ UNCHANGED <<participants, trials, session>>
      ]_vars

\* The consent was recorded and the controller then found no conditions
C14_Witness ==
    /\ last.op = "consent_POST"
    /\ last.via = "pre_evaluation_tasks"
    /\ last.resp = "sorry_no_tasks"
    /\ session[last.s].condition_ids = CondList({})
    /\ participants[session[last.s].participant_id].gave_consent

\* What the handler that served op wrote to the participant table before
\* it called post_evaluation_tasks: nothing when the controller is
\* requested itself, else the submitted form.
PostHandlerWriteOnly(op, pid) ==
    \/ /\ op = "post_evaluation_tasks"
       /\ participants' = participants
    \/ /\ op = "hearing_response_estimation_POST"
       /\ participants' = [participants EXCEPT ![pid].hearing_response_estimation = "form"]
    \/ /\ op = "post_test_survey_POST"
       /\ participants' = [participants EXCEPT ![pid].post_test_survey = "form"]

C16_NoParticipantApologyPage ==
    [][\A s \in Sessions :
          (/\ now' = now /\ last'.s = s /\ last' # last
           /\ session[s].participant_id = 0
           /\ last'.op \in {"consent_POST", "pre_test_survey_POST", "hearing_test_GET",
                            "hearing_test_POST", "evaluation_GET", "evaluation_POST",
                            "post_evaluation_tasks"}
           \* a consent POST that does not agree resolves no participant
           /\ last'.resp \notin {"sorry_thank_you", "consent_page"}) =>
              /\ last'.resp = "sorry_third_party_cookies"
              /\ UNCHANGED <<participants, trials>>
      ]_vars

\* C17: every stored trial refers to a participant row that exists and to
\* a condition that exists in the store.
C17_TrialsReferToExistingRows ==
    \A k \in 1..Len(trials) :
        /\ trials[k].participant_id \in 1..Len(participants)
        /\ trials[k].condition_id \in conditions

\* C18: a hearing_test POST that records an attempt records a pass if and
\* only if both reported tone counts equal the expected ones, the expected
\* count of a slot being the index of the challenge held in the session for
\* that slot, integer-divided by the files-per-tone-count constant.
C18_PassIffBothMatch ==
    [][\A s \in Sessions :
          LET pid == session[s].participant_id
              index1 == decrypt_data(session[s].hearing_test_audio_index1)
              index2 == decrypt_data(session[s].hearing_test_audio_index2)
          IN  (/\ now' = now /\ last'.op = "hearing_test_POST" /\ last'.s = s
               /\ participants' # participants) =>
                  \A tones1, tones2 \in ToneCounts :
                      HearingTestPost(s, tones1, tones2) =>
                          (participants'[pid].passed_hearing_test = "True"
                           <=> (/\ tones1 = index1 \div HEARING_TEST_AUDIO_FILES_PER_TONES
                                /\ tones2 = index2 \div HEARING_TEST_AUDIO_FILES_PER_TONES))
      ]_vars

\* A pass was recorded on the attempt after a failed one
C18_Witness ==
    /\ last.op = "hearing_test_POST"
    /\ last.resp # "error500"
    /\ participants[session[last.s].participant_id].passed_hearing_test = "True"
    /\ participants[session[last.s].participant_id].hearing_test_attempts = 2

\* C19: a hearing_test POST whose tone counts do not both match records a
\* failure and adds exactly one to the attempts; if the count is then below
\* the maximum the response is the warning with the redirect to hearing_test
\* GET, and that GET can then issue every pair of distinct indices of the
\* range, whatever pair the session held before.
C19_FailedAttemptNewChallenge ==
    [][\A s \in Sessions :
          LET pid == session[s].participant_id
              index1 == decrypt_data(session[s].hearing_test_audio_index1)
              index2 == decrypt_data(session[s].hearing_test_audio_index2)
          IN
          /\ (/\ now' = now /\ last'.op = "hearing_test_POST" /\ last'.s = s
              /\ participants' # participants) =>
                 \A tones1, tones2 \in ToneCounts :
                     (/\ HearingTestPost(s, tones1, tones2)
                      /\ ~(/\ tones1 = index1 \div HEARING_TEST_AUDIO_FILES_PER_TONES
                           /\ tones2 = index2 \div HEARING_TEST_AUDIO_FILES_PER_TONES)) =>
                         /\ participants'[pid].passed_hearing_test = "False"
                         /\ participants'[pid].hearing_test_attempts
                                = participants[pid].hearing_test_attempts + 1
                         /\ participants'[pid].hearing_test_attempts < MaxHearingTestAttempts =>
                                last'.resp = "flash_redirect_hearing_test"
          /\ (last.resp = "flash_redirect_hearing_test" /\ last.s = s) =>
                 \A i1, i2 \in HearingTestIndices :
                     i1 # i2 =>
                         ENABLED (/\ HearingTestGet(s)
                                  /\ session'[s].hearing_test_audio_index1 = encrypt_data(i1)
                                  /\ session'[s].hearing_test_audio_index2 = encrypt_data(i2))
      ]_vars

\* A first attempt failed with attempts left: the warning was shown
C19_Witness ==
    /\ last.op = "hearing_test_POST"
    /\ last.resp = "flash_redirect_hearing_test"
    /\ participants[session[last.s].participant_id].passed_hearing_test = "False"
    /\ participants[session[last.s].participant_id].hearing_test_attempts = 1

SurveyPostStores(s) ==
    LET pid == session[s].participant_id IN
    (/\ now' = now /\ last'.op = "pre_test_survey_POST" /\ last'.s = s
     /\ pid # 0 /\ last' # last) =>
        \A form \in Forms :
            PreTestSurveyPost(s, form) =>
                /\ participants'[pid].pre_test_survey = form
                /\ form = "fails" => last'.resp = "sorry_inclusion_criteria"

\* C21 as stated: a pre_test_survey POST stores the form, replacing an
\* earlier one, also when it fails the inclusion criteria; while a failing
\* survey is the recorded one the controller never answers with the
\* evaluation, and answers with the inclusion-criteria page once the gates
\* before the survey are met.
C21_FailingSurveyNeverEvaluation ==
    [][\A s \in Sessions :
          /\ SurveyPostStores(s)
          /\ LET p == participants'[session'[s].participant_id] IN
             (/\ now' = now /\ last'.s = s /\ last'.via = "pre_evaluation_tasks"
              /\ p.pre_test_survey = "fails") =>
                 /\ last'.resp # "redirect_evaluation"
                 /\ (/\ NonEmpty(session'[s].condition_ids)
                     /\ ~config.obtain_consent \/ p.gave_consent
                     /\ ~config.hearing_screening_test_enabled \/ RecentPassAt(p, now')) =>
                        last'.resp = "sorry_inclusion_criteria"
      ]_vars

\* C21 as amended: ... while a failing survey is the recorded one and the
\* pre-test survey is enabled, the controller never answers with the
\* evaluation ...
C21_FailingSurveyNeverEvaluationEnabled ==
    [][\A s \in Sessions :
          /\ SurveyPostStores(s)
          /\ LET p == participants'[session'[s].participant_id] IN
             (/\ now' = now /\ last'.s = s /\ last'.via = "pre_evaluation_tasks"
              /\ config.pre_test_survey_enabled
              /\ p.pre_test_survey = "fails") =>
                 /\ last'.resp # "redirect_evaluation"
                 /\ (/\ NonEmpty(session'[s].condition_ids)
                     /\ ~config.obtain_consent \/ p.gave_consent
                     /\ ~config.hearing_screening_test_enabled \/ RecentPassAt(p, now')) =>
                        last'.resp = "sorry_inclusion_criteria"
      ]_vars

\* A participant whose recorded survey fails the criteria came back, and
\* the controller answered with the inclusion-criteria page
C21_Witness ==
    /\ last.op = "create_participant"
    /\ last.resp = "sorry_inclusion_criteria"
    /\ participants[session[last.s].participant_id].pre_test_survey = "fails"

C26_EndKeepsPlatform ==
    [][\A s \in Sessions :
          LET pid == session'[s].participant_id IN
          (/\ now' = now /\ last'.s = s /\ last'.via = "post_evaluation_tasks"
           /\ last'.resp = "redirect_end"
           /\ pid # 0
           /\ participants'[pid].platform = "mturk") =>
              session'[s].platform = "mturk"
      ]_vars

\* C23: create_participant leaves a fresh session: it holds no hearing-test
\* token and no platform of an earlier visit, the id of the row resolved for
\* the worker of this request, the crowd metadata of this request, and the
\* condition ids the controller assigned in this request, on which the
\* response is decided.
C23_FreshSession ==
    [][\A s \in Browsers, participant_type \in CrowdTypes, w \in Workers,
          a \in AssignmentIds :
          CreateParticipant(s, participant_type, w, a) =>
              LET sess == session'[s]
                  pid == sess.participant_id
              IN  /\ sess.hearing_test_audio_index1 = NoToken
                  /\ sess.hearing_test_audio_index2 = NoToken
                  /\ sess.platform = None
                  /\ sess.crowd_data = a
                  /\ pid \in 1..Len(participants')
                  /\ participants'[pid].crowd_worker_id = w
                  /\ sess.condition_ids \in AssignChoices
                  /\ last'.via = "pre_evaluation_tasks"
                  /\ last'.resp = PreEvaluationResponse(participants'[pid],
                                                        sess.condition_ids)
      ]_vars

\* a second worker has entered in the browser in which the first worker took
\* the hearing test, whose tokens the session held
C23_Witness ==
    /\ last.op = "create_participant"
    /\ Len(participants) = 2
    /\ participants[1].hearing_test_attempts > 0
    /\ session[last.s].participant_id = 2
    /\ session[last.s].crowd_data = "a2"
    /\ session[last.s].hearing_test_audio_index1 = NoToken

\* C24: a hearing_test POST of a participant whose attempt count has reached
\* the configured maximum is not graded: it neither counts a further attempt
\* nor records an outcome, so the count never exceeds the maximum and no pass
\* is recorded past it.
C24_SubmissionsBounded ==
    [][\A s \in Sessions :
          LET pid == session[s].participant_id IN
          (/\ now' = now /\ last'.s = s /\ last'.op = "hearing_test_POST"
           /\ pid # 0
           /\ participants[pid].hearing_test_attempts >= MaxHearingTestAttempts) =>
              /\ participants'[pid].hearing_test_attempts <= MaxHearingTestAttempts
              /\ participants'[pid].passed_hearing_test = participants[pid].passed_hearing_test
      ]_vars

\* C25: an evaluation POST stores trials only for a participant who at that
\* time passes every enabled pre-evaluation gate: conditions assigned and
\* not empty, consent given, a recent hearing-test pass, a valid pre-test
\* survey.
C25_TrialsOnlyPastGates ==
    [][\A s \in Sessions :
          (EvaluationPostTookEffect(s) /\ trials' # trials) =>
              LET p == participants[session[s].participant_id] IN
              /\ NonEmpty(session[s].condition_ids)
              /\ ~config.obtain_consent \/ p.gave_consent
              /\ ~config.hearing_screening_test_enabled
                    \/ has_passed_hearing_test_recently(p)
              /\ ~config.pre_test_survey_enabled
                    \/ (p.pre_test_survey # None
                        /\ is_pre_test_survey_valid(p.pre_test_survey))
      ]_vars

\* The cooperative participant is at the end page / was told that no
\* condition could be assigned / was refused a further hearing-test challenge
CoopAtEnd == last.op = "end_GET"
CoopToldNoTasks == last.resp = "sorry_no_tasks"
CoopToldMaxAttempts == last.resp = "sorry_max_attempts"

\* A controller's response in this step does not name a step whose fact is
\* in the participant's row; passed(p) says when the hearing test counts as
\* recorded.
NotSentBack(passed(_)) ==
    \A s \in Sessions :
        (/\ last' # last /\ last'.s = s
         /\ last'.via \in {"pre_evaluation_tasks", "post_evaluation_tasks"}
         /\ session'[s].participant_id # 0) =>
            LET p == participants'[session'[s].participant_id] IN
            /\ last'.resp = "redirect_consent" => ~p.gave_consent
            /\ last'.resp = "redirect_hearing_test" => ~passed(p)
            /\ last'.resp = "redirect_pre_test_survey" => p.pre_test_survey = None
            /\ last'.resp = "redirect_hearing_response_estimation"
                   => p.hearing_response_estimation = None
            /\ last'.resp = "redirect_post_test_survey" => p.post_test_survey = None

PassRecorded(p) == IsPass(p)
PassRecent(p) == RecentPassAt(p, now')

====
